---- MODULE Spec2Model ----
(***************************************************************************)
(* A model of service/app.py: the W-2 text extraction service.             *)
(*                                                                         *)
(* A text is a sequence of lexemes.  A lexeme is a piece of text (a TLA+   *)
(* string) that the regular expressions of app.py treat as a unit: a       *)
(* caption, a word, a number, one whitespace character.  An offset is a    *)
(* number of lexemes, counted from 0 as Python counts characters, and      *)
(* text[start:end] is Slice(text, start, end).  Where a match of a regular *)
(* expression depends on the characters of neighbouring lexemes (a word    *)
(* boundary, a run of digits glued to an amount), the operators below      *)
(* look at those neighbours.                                               *)
(*                                                                         *)
(* Optional[str] is modelled as a sequence: None is <<>> and the string s  *)
(* is <<s>>.                                                               *)
(***************************************************************************)
EXTENDS Integers, Sequences, FiniteSets, TLC

VARIABLES
    pc,            \* the position of the function under execution
    text,          \* the text argument of a function called on its own
    sections,      \* the list _split_employee_sections returns
    state_values,  \* the dict _extract_state_wages_and_tax returns
    pages,         \* the pages argument of _extract_employees_from_pages
    page_idx,      \* how many of target_pages the loop of line 183 has done
    units,         \* the texts handed to _extract_employee_from_page so far
    employees,     \* the list employees of _extract_employees_from_pages
    unique,        \* the list _extract_employees_from_pages returns
    data,          \* the uploaded document: what each backend does with it
    called,        \* the backends the handler has called, in order
    method,        \* the local method of extract
    response       \* what the /extract handler answered

vars == <<pc, text, sections, state_values, pages, page_idx, units,
          employees, unique, data, called, method, response>>

(***************************************************************************)
(* Bounds of the model.                                                    *)
(***************************************************************************)
MaxSplitLen == 5
MaxTaxLen == 6
MaxPages == 2
MaxDocLexemes == 3
MaxEmployees == 4
MaxBackendPages == 2
MaxBackendLexemes == 2

(***************************************************************************)
(* Optional values and small helpers.                                      *)
(***************************************************************************)
None == <<>>
Some(s) == <<s>>

Range(seq) == {seq[i] : i \in 1..Len(seq)}

\* Python's seq[start:end] for 0 <= start <= end <= len(seq).
Slice(seq, start, end) == SubSeq(seq, start + 1, end)

\* Every text of at most n lexemes drawn from the set lexemes.
Texts(lexemes, n) == UNION {[1..k -> lexemes] : k \in 0..n}

RECURSIVE Docs(_, _, _)
\* Every list of at most p pages that hold at most m lexemes together.
Docs(lexemes, p, m) ==
    IF p = 0 THEN {<<>>}
    ELSE {<<>>} \cup
         UNION {{<<page>> \o rest : rest \in Docs(lexemes, p - 1, m - Len(page))} :
                    page \in Texts(lexemes, m)}

RECURSIVE Concat(_)
\* The concatenation of a list of texts ("".join(list)).
Concat(list) ==
    IF list = <<>> THEN <<>> ELSE Head(list) \o Concat(Tail(list))

(***************************************************************************)
(* The lexemes and what the character classes of the patterns see in them. *)
(***************************************************************************)
SP == " "
NL == "\n"
Whitespace == {SP, NL}

\* Matches of r"Employee'?s name|Employee'?s SSN" under re.IGNORECASE.
MarkerLexemes == {"Employee's name", "Employees name", "EMPLOYEE'S SSN", "employees ssn"}

\* Matches of r"\d[\d,]*\.\d{2}".
AmountLexemes == {"100.00", "7.50", "0.00"}

Cap16 == "16 State wages"
Cap17 == "17 State income tax"

\* The captions the field rules anchor on (each pattern is matched under
\* re.IGNORECASE; the lexemes are the captions as a W-2 prints them).
NameLabels == {"Employee's name", "Employees name"}
SsnLabel == "Employee's social security number"
FirstNameLabel == "Employee's first name"
EinLabel == "Employer identification number"
EmployerNameLabel == "Employer's name"
MapfmlLabel == "MAPFML:"
WagesLabel == "Wages, tips, other comp"

\* The digits lexeme l begins with ([0-9,]+ from its first character on).
\* In every lexeme that is not a run of digits the character after them is
\* no word character.
LeadDigits(l) ==
    CASE l = "123456789" -> "123456789"
      [] l = "123-45-6789" -> "123"
      [] l = "12-3456789" -> "12"
      [] l = "100.00" -> "100"
      [] l = "7.50" -> "7"
      [] l = "0.00" -> "0"
      [] l = Cap16 -> "16"
      [] l = Cap17 -> "17"
      [] OTHER -> ""

\* The digits lexeme l ends with.  In every lexeme that is not a run of
\* digits the character before them is no word character.
TailDigits(l) ==
    CASE l = "123456789" -> "123456789"
      [] l = "12-3456789" -> "3456789"
      [] l = "123-45-6789" -> "6789"
      [] l = "W-2" -> "2"
      [] l = "100.00" -> "00"
      [] l = "7.50" -> "50"
      [] l = "0.00" -> "00"
      [] OTHER -> ""

\* Whether every character of lexeme l is a digit or a comma.
AllDigits(l) == l = "123456789"

\* Whether the first, the last character of lexeme l is a word character
\* (\w), which decides \b against a neighbour.
StartsWord(l) == l \notin Whitespace \cup {"$"}
EndsWord(l) == l \notin Whitespace \cup {"$", MapfmlLabel}

\* Python's substring tests of line 178 on one lexeme.
ContainsW2(l) == l = "W-2"
ContainsEmployee(l) ==
    l \in {"Employee", "Employee's name", "Employees name", SsnLabel, FirstNameLabel}

IsWhitespace(l) == l \in Whitespace
IsMarker(l) == l \in MarkerLexemes
IsAmount(l) == l \in AmountLexemes

(***************************************************************************)
(* _split_employee_sections, lines 97-109.                                 *)
(***************************************************************************)
RECURSIVE finditer_markers(_, _)
\* re.finditer of the marker pattern from lexeme i on: the offsets
\* (marker.start()) of the matches, in the order the scan finds them.
finditer_markers(t, i) ==
    IF i > Len(t) THEN <<>>
    ELSE IF IsMarker(t[i]) THEN <<i - 1>> \o finditer_markers(t, i + 1)
    ELSE finditer_markers(t, i + 1)

\* A variant of _split_employee_sections in which every section runs to the
\* end of the text (end is never the next marker's offset).
_split_employee_sections_to_end(t) ==
    LET markers == finditer_markers(t, 1)
    IN  IF markers = <<>> THEN <<t>>
        ELSE [idx \in 1..Len(markers) |-> Slice(t, markers[idx], Len(t))]

_split_employee_sections(t) ==
    LET markers == finditer_markers(t, 1)
    IN  IF markers = <<>> THEN <<t>>
        ELSE [idx \in 1..Len(markers) |->
                LET start == markers[idx]
                    end == IF idx + 1 <= Len(markers) THEN markers[idx + 1]
                           ELSE Len(t)
                IN  Slice(t, start, end)]

(***************************************************************************)
(* _extract_state_wages_and_tax, lines 112-125.                            *)
(***************************************************************************)
RECURSIVE take_line(_, _)
\* The greedy group ([^\n]+) from lexeme p on: the lexemes up to the next
\* newline or the end of the text.
take_line(t, p) ==
    IF p > Len(t) \/ t[p] = NL THEN <<>>
    ELSE <<t[p]>> \o take_line(t, p + 1)

RECURSIVE lazy_any_then_line(_, _)
\* r".*?\n([^\n]+)" under re.DOTALL from lexeme k on: the lazy .*? grows
\* over anything until a newline is followed by a line of at least one
\* character.  None or Some(line).
lazy_any_then_line(t, k) ==
    IF k > Len(t) THEN None
    ELSE IF t[k] = NL /\ take_line(t, k + 1) # <<>> THEN Some(take_line(t, k + 1))
    ELSE lazy_any_then_line(t, k + 1)

RECURSIVE lazy_any_then_cap17(_, _)
\* r".*?17 State income tax.*?\n([^\n]+)" under re.DOTALL from lexeme j on.
lazy_any_then_cap17(t, j) ==
    IF j > Len(t) THEN None
    ELSE IF t[j] = Cap17 /\ lazy_any_then_line(t, j + 1) # None
         THEN lazy_any_then_line(t, j + 1)
    ELSE lazy_any_then_cap17(t, j + 1)

RECURSIVE search_state_line(_, _)
\* re.search of the pattern of line 114 from lexeme i on: the leftmost
\* start that matches wins.  None or Some(match.group(1)).
search_state_line(t, i) ==
    IF i > Len(t) THEN None
    ELSE IF t[i] = Cap16 /\ lazy_any_then_cap17(t, i + 1) # None
         THEN lazy_any_then_cap17(t, i + 1)
    ELSE search_state_line(t, i + 1)

RECURSIVE findall_amounts(_, _, _)
\* re.findall(r"\d[\d,]*\.\d{2}", line) from lexeme p on.  glued is the run
\* of digits that ends right before lexeme p and that no earlier match has
\* consumed: a match starts at the first digit of that run.
findall_amounts(line, p, glued) ==
    IF p > Len(line) THEN <<>>
    ELSE IF IsAmount(line[p])
         THEN <<glued \o line[p]>> \o findall_amounts(line, p + 1, "")
    ELSE IF AllDigits(line[p])
         THEN findall_amounts(line, p + 1, glued \o line[p])
    ELSE findall_amounts(line, p + 1, TailDigits(line[p]))

\* A variant of lines 123-125 that accepts a single token (len(nums) >= 1).
state_result_partial(nums) ==
    IF Len(nums) >= 1
    THEN [state_wages |-> Some(nums[1]),
          state_withheld |-> IF Len(nums) >= 2 THEN Some(nums[2]) ELSE None]
    ELSE [state_wages |-> None, state_withheld |-> None]

\* Lines 123-125: the result for the tokens found on the line.
state_result(nums) ==
    IF Len(nums) >= 2
    THEN [state_wages |-> Some(nums[1]), state_withheld |-> Some(nums[2])]
    ELSE [state_wages |-> None, state_withheld |-> None]

_extract_state_wages_and_tax(t) ==
    LET match == search_state_line(t, 1)
    IN  IF match = None
        THEN [state_wages |-> None, state_withheld |-> None]
        ELSE state_result(findall_amounts(match[1], 1, ""))

(***************************************************************************)
(* str.strip, re.split, _normalize_text (lines 49-50) and the patterns of  *)
(* the field rules.                                                        *)
(***************************************************************************)
RECURSIVE lstrip(_)
lstrip(t) ==
    IF t # <<>> /\ IsWhitespace(Head(t)) THEN lstrip(Tail(t)) ELSE t

RECURSIVE rstrip(_)
rstrip(t) ==
    IF t # <<>> /\ IsWhitespace(t[Len(t)]) THEN rstrip(SubSeq(t, 1, Len(t) - 1))
    ELSE t

\* str.strip(): t without its leading and trailing whitespace.
strip(t) == rstrip(lstrip(t))

\* The words of lexeme l, which holds no whitespace but single spaces
\* between the words of a caption.
LexemeWords(l) ==
    CASE l = "Employee's name" -> <<"Employee's", "name">>
      [] l = "Employees name" -> <<"Employees", "name">>
      [] l = "EMPLOYEE'S SSN" -> <<"EMPLOYEE'S", "SSN">>
      [] l = "employees ssn" -> <<"employees", "ssn">>
      [] l = SsnLabel -> <<"Employee's", "social", "security", "number">>
      [] l = FirstNameLabel -> <<"Employee's", "first", "name">>
      [] l = EinLabel -> <<"Employer", "identification", "number">>
      [] l = EmployerNameLabel -> <<"Employer's", "name">>
      [] l = Cap16 -> <<"16", "State", "wages">>
      [] l = Cap17 -> <<"17", "State", "income", "tax">>
      [] l = WagesLabel -> <<"Wages,", "tips,", "other", "comp">>
      [] OTHER -> <<l>>

RECURSIVE split_whitespace(_, _, _)
\* re.split(r"\s+", t) of a stripped text from lexeme p on: the words, each
\* the string its characters make; cur is the word read so far.
split_whitespace(t, p, cur) ==
    IF p > Len(t) THEN (IF cur = "" THEN <<>> ELSE <<cur>>)
    ELSE IF IsWhitespace(t[p])
         THEN (IF cur = "" THEN <<>> ELSE <<cur>>) \o split_whitespace(t, p + 1, "")
    ELSE LET w == LexemeWords(t[p])
         IN  IF Len(w) = 1 THEN split_whitespace(t, p + 1, cur \o w[1])
             ELSE <<cur \o w[1]>> \o SubSeq(w, 2, Len(w) - 1)
                    \o split_whitespace(t, p + 1, w[Len(w)])

RECURSIVE collapse_whitespace(_, _)
\* re.sub(r"\s+", " ", t) from lexeme p on.
collapse_whitespace(t, p) ==
    IF p > Len(t) THEN <<>>
    ELSE IF IsWhitespace(t[p])
         THEN IF p > 1 /\ IsWhitespace(t[p - 1]) THEN collapse_whitespace(t, p + 1)
              ELSE <<SP>> \o collapse_whitespace(t, p + 1)
    ELSE <<t[p]>> \o collapse_whitespace(t, p + 1)

_normalize_text(t) == strip(collapse_whitespace(t, 1))

RECURSIVE join_str(_, _)
\* sep.join(parts) for a list of strings.
join_str(parts, sep) ==
    IF parts = <<>> THEN ""
    ELSE IF Len(parts) = 1 THEN parts[1]
    ELSE parts[1] \o sep \o join_str(Tail(parts), sep)

RECURSIVE first_newline(_, _)
\* The position of the first newline at or after lexeme k; 0 if none.
first_newline(t, k) ==
    IF k > Len(t) THEN 0
    ELSE IF t[k] = NL THEN k
    ELSE first_newline(t, k + 1)

RECURSIVE search_label_next_line(_, _, _)
\* _first_match(label + r".*?\n([^\n]+)", t) from lexeme i on: the label,
\* the rest of its line (. matches no newline), the newline, and the next
\* line, which must hold a character; the group is stripped.  None or
\* Some(group.strip()).
search_label_next_line(labels, t, i) ==
    IF i > Len(t) THEN None
    ELSE LET k == first_newline(t, i + 1)
         IN  IF t[i] \in labels /\ k # 0 /\ take_line(t, k + 1) # <<>>
             THEN Some(strip(take_line(t, k + 1)))
             ELSE search_label_next_line(labels, t, i + 1)

RECURSIVE search_ssn_label(_, _)
\* _first_match(r"Employee.?s social security number\s+(\d{3}-\d{2}-\d{4})", t)
\* from lexeme i on.
search_ssn_label(t, i) ==
    IF i >= Len(t) THEN None
    ELSE LET rest == lstrip(SubSeq(t, i + 1, Len(t)))
         IN  IF /\ t[i] = SsnLabel
                /\ IsWhitespace(t[i + 1])
                /\ rest # <<>>
                /\ rest[1] = "123-45-6789"
             THEN Some(rest[1])
             ELSE search_ssn_label(t, i + 1)

RECURSIVE search_nine_digits(_, _, _, _)
\* _first_match(r"\b(\d{9})\b", t) from lexeme p on.  run is the run of
\* digits that ends right before lexeme p, and leftok says that the
\* character before that run is no word character (or the run starts the
\* text).  A run matches when it is nine digits long between two word
\* boundaries.
search_nine_digits(t, p, run, leftok) ==
    IF p > Len(t)
    THEN IF Len(run) = 9 /\ leftok THEN Some(run) ELSE None
    ELSE LET l == t[p]
         IN  IF AllDigits(l) THEN search_nine_digits(t, p + 1, run \o l, leftok)
             ELSE IF LeadDigits(l) # ""
             THEN IF Len(run \o LeadDigits(l)) = 9 /\ leftok
                  THEN Some(run \o LeadDigits(l))
                  ELSE search_nine_digits(t, p + 1, TailDigits(l),
                                          TailDigits(l) # "" \/ ~EndsWord(l))
             ELSE IF Len(run) = 9 /\ leftok /\ ~StartsWord(l) THEN Some(run)
             ELSE search_nine_digits(t, p + 1, TailDigits(l),
                                     TailDigits(l) # "" \/ ~EndsWord(l))

RECURSIVE number_token(_, _, _)
\* The group ([0-9,]+(?:\.[0-9]{2})?) matched from lexeme p on, run being
\* the digits matched so far: "" if no digit is there.
number_token(t, p, run) ==
    IF p > Len(t) THEN run
    ELSE IF AllDigits(t[p]) THEN number_token(t, p + 1, run \o t[p])
    ELSE IF IsAmount(t[p]) THEN run \o t[p]
    ELSE run \o LeadDigits(t[p])

RECURSIVE search_label_money(_, _, _, _)
\* _first_match(label + r"\s*\$?([0-9,]+(?:\.[0-9]{2})?)", t) from lexeme i
\* on: the pattern of line 77, and without \$? (dollar = FALSE) the one of
\* line 159.
search_label_money(label, dollar, t, i) ==
    IF i > Len(t) THEN None
    ELSE LET rest == lstrip(SubSeq(t, i + 1, Len(t)))
             digits == IF dollar /\ rest # <<>> /\ rest[1] = "$" THEN Tail(rest)
                       ELSE rest
             token == number_token(digits, 1, "")
         IN  IF t[i] = label /\ token # "" THEN Some(token)
             ELSE search_label_money(label, dollar, t, i + 1)

(***************************************************************************)
(* _extract_name (lines 58-72) and _extract_money (lines 75-78).           *)
(***************************************************************************)
RECURSIVE search_name_label(_, _)
\* _first_match(r"Employee.?s name\s+([^\n]+)", t) from lexeme i on.  \s+
\* takes the whole run of whitespace and the group the rest of the line.
\* When the whitespace runs to the end of the text the pattern matches
\* whitespace only or nothing: "" or None, which line 61 does not tell
\* apart, and which is None here.
search_name_label(t, i) ==
    IF i >= Len(t) THEN None
    ELSE LET after == lstrip(SubSeq(t, i + 1, Len(t)))
         IN  IF t[i] \in NameLabels /\ IsWhitespace(t[i + 1])
             THEN IF after = <<>> THEN None
                  ELSE Some(strip(take_line(after, 1)))
             ELSE search_name_label(t, i + 1)

\* Lines 66-72: the name parts for the words of a name.
name_parts(parts) ==
    IF Len(parts) = 1
    THEN [first |-> Some(parts[1]), middle |-> None, last |-> None]
    ELSE IF Len(parts) = 2
    THEN [first |-> Some(parts[1]), middle |-> None, last |-> Some(parts[2])]
    ELSE [first |-> Some(parts[1]),
          middle |-> Some(join_str(SubSeq(parts, 2, Len(parts) - 1), " ")),
          last |-> Some(parts[Len(parts)])]

_extract_name(t) ==
    LET labelled == search_name_label(t, 1)
        name == IF labelled # None THEN labelled[1] ELSE strip(t)
    IN  IF name = <<>>
        THEN [first |-> None, middle |-> None, last |-> None]
        ELSE name_parts(split_whitespace(strip(name), 1, ""))

_extract_money(label, t) == search_label_money(label, TRUE, t, 1)

(***************************************************************************)
(* _extract_employer_info, lines 81-94.                                    *)
(***************************************************************************)
\* The characters of lexeme l that the class [A-Z0-9 &.,'\-] matches from
\* its first character on (under re.IGNORECASE): all of them, but for a
\* lexeme that holds a colon or a dollar sign.
NameClassPrefix(l) ==
    CASE l = MapfmlLabel -> "MAPFML"
      [] l = "$" -> ""
      [] OTHER -> l

RECURSIVE take_name_class(_, _)
\* The greedy group ([A-Z0-9 &.,'\-]+) from lexeme p on.
take_name_class(t, p) ==
    IF p > Len(t) \/ t[p] = NL THEN <<>>
    ELSE IF NameClassPrefix(t[p]) = t[p]
         THEN <<t[p]>> \o take_name_class(t, p + 1)
    ELSE IF NameClassPrefix(t[p]) = "" THEN <<>>
    ELSE <<NameClassPrefix(t[p])>>

RECURSIVE search_employer_name(_, _)
\* _first_match(r"Employer.?s name.*?\n([A-Z0-9 &.,'\-]+)", t) from lexeme i
\* on.  None or Some(group.strip()).
search_employer_name(t, i) ==
    IF i > Len(t) THEN None
    ELSE LET k == first_newline(t, i + 1)
         IN  IF t[i] = EmployerNameLabel /\ k # 0 /\ take_name_class(t, k + 1) # <<>>
             THEN Some(strip(take_name_class(t, k + 1)))
             ELSE search_employer_name(t, i + 1)

RECURSIVE starts_with_amount(_)
\* Whether the text begins with a match of r"\d[\d,]*\.\d{2}".
starts_with_amount(t) ==
    /\ t # <<>>
    /\ \/ IsAmount(t[1])
       \/ AllDigits(t[1]) /\ starts_with_amount(Tail(t))

RECURSIVE sub_amount_tail(_, _)
\* re.sub(r"\s+\d[\d,]*\.\d{2}.*$", "", t) of a one-line text from lexeme q
\* on: the text is cut at the first whitespace that an amount follows.
sub_amount_tail(t, q) ==
    IF q > Len(t) THEN t
    ELSE IF IsWhitespace(t[q]) /\ starts_with_amount(lstrip(SubSeq(t, q, Len(t))))
         THEN SubSeq(t, 1, q - 1)
    ELSE sub_amount_tail(t, q + 1)

RECURSIVE search_ein(_, _)
\* _first_match(r"Employer identification number.*?\n(\d{2}-\d{7}|\d{9})", t)
\* from lexeme i on.
search_ein(t, i) ==
    IF i > Len(t) THEN None
    ELSE LET k == first_newline(t, i + 1)
         IN  IF /\ t[i] = EinLabel
                /\ k # 0
                /\ k < Len(t)
                /\ t[k + 1] \in {"12-3456789", "123456789"}
             THEN Some(t[k + 1])
             ELSE search_ein(t, i + 1)

_extract_employer_info(t) ==
    LET raw_name_line == search_employer_name(t, 1)
    IN  [employer_name |->
            IF raw_name_line # None /\ raw_name_line[1] # <<>>
            THEN Some(join_str(strip(sub_amount_tail(raw_name_line[1], 1)), ""))
            ELSE None,
         employer_ein |-> search_ein(t, 1)]

(***************************************************************************)
(* _extract_employee_from_page, lines 128-170.                             *)
(***************************************************************************)
RECURSIVE sub_zero_tail(_, _)
\* re.sub(r"\s+0\.00.*$", "", t) of a one-line text from lexeme q on.
sub_zero_tail(t, q) ==
    IF q > Len(t) THEN t
    ELSE LET rest == lstrip(SubSeq(t, q, Len(t)))
         IN  IF IsWhitespace(t[q]) /\ rest # <<>> /\ rest[1] = "0.00"
             THEN SubSeq(t, 1, q - 1)
             ELSE sub_zero_tail(t, q + 1)

\* Lines 132-136.
employee_ssn(t) ==
    IF search_ssn_label(t, 1) # None THEN search_ssn_label(t, 1)
    ELSE search_nine_digits(t, 1, "", TRUE)

\* Lines 138-146.
employee_name(t) ==
    LET name_line == search_label_next_line({FirstNameLabel}, t, 1)
    IN  IF name_line # None /\ name_line[1] # <<>>
        THEN _extract_name(strip(sub_zero_tail(name_line[1], 1)))
        ELSE _extract_name(t)

\* Lines 148-156.
employee_wages(t) ==
    LET wages_line == search_label_next_line({EinLabel}, t, 1)
        decimals == IF wages_line # None /\ wages_line[1] # <<>>
                    THEN findall_amounts(wages_line[1], 1, "")
                    ELSE <<>>
    IN  IF decimals # <<>> THEN Some(decimals[1]) ELSE None

_extract_employee_from_page(t) ==
    LET norm == _normalize_text(t)
        name == employee_name(t)
        wages == employee_wages(t)
        state == _extract_state_wages_and_tax(t)
    IN  [ssn |-> employee_ssn(t),
         first |-> name.first,
         middle |-> name.middle,
         last |-> name.last,
         wages |-> IF wages # None THEN wages
                   ELSE _extract_money(WagesLabel, norm),
         state_wages |-> state.state_wages,
         state_withheld |-> state.state_withheld,
         mapfml |-> search_label_money(MapfmlLabel, FALSE, t, 1)]

(***************************************************************************)
(* _extract_employees_from_pages, lines 173-207.                           *)
(***************************************************************************)
EmployeeFields ==
    {"ssn", "first", "middle", "last", "wages", "state_wages",
     "state_withheld", "mapfml"}

\* Line 178: "W-2" in page_text and "Employee" in page_text.
is_w2_page(page_text) ==
    /\ \E i \in 1..Len(page_text) : ContainsW2(page_text[i])
    /\ \E i \in 1..Len(page_text) : ContainsEmployee(page_text[i])

\* Lines 175-179.
w2_pages(pgs) == SelectSeq(pgs, is_w2_page)

\* A variant of line 181 that never narrows the pages to the W-2 pages.
target_pages_all(pgs) == pgs

\* Line 181.
target_pages(pgs) == IF w2_pages(pgs) # <<>> THEN w2_pages(pgs) ELSE pgs

\* Python's truth value of an Optional[str].
truthy(v) == v # None /\ v[1] # ""

\* Lines 188 and 194: any(employee.values()).
any_values(employee) == \E f \in EmployeeFields : truthy(employee[f])

\* Lines 184-193: the texts of a page that _extract_employee_from_page is
\* called on, in the order of the calls.
page_units(page_text, w2) ==
    IF strip(page_text) = <<>> THEN <<>>
    ELSE IF page_text \in Range(w2) THEN <<page_text>>
    ELSE _split_employee_sections(page_text)

\* A variant of lines 184-195 that appends every record it extracts: no
\* blank page is skipped and no record is tested with any().
page_employees_unfiltered(page_text, w2) ==
    LET called_on == IF page_text \in Range(w2) THEN <<page_text>>
                     ELSE _split_employee_sections(page_text)
    IN  [i \in 1..Len(called_on) |-> _extract_employee_from_page(called_on[i])]

\* Lines 184-195: the records one page appends to employees.
page_employees(page_text, w2) ==
    LET called_on == page_units(page_text, w2)
        extracted == [i \in 1..Len(called_on) |->
                        _extract_employee_from_page(called_on[i])]
    IN  SelectSeq(extracted, any_values)

\* str(v) of an Optional[str] in the f-string of line 201.
py_str(v) == IF v = None THEN "None" ELSE v[1]

\* A variant of line 201 whose key is the SSN alone.
identity_key_ssn_only(emp) == py_str(emp.ssn)

\* Line 201: emp.get("ssn") or f"{emp.get('first')}-{emp.get('last')}".
identity_key(emp) ==
    IF truthy(emp.ssn) THEN emp.ssn[1]
    ELSE py_str(emp.first) \o "-" \o py_str(emp.last)

RECURSIVE dedup_loop(_, _, _, _)
\* Lines 200-205 from record i on.
dedup_loop(emps, i, seen, uniq) ==
    IF i > Len(emps) THEN uniq
    ELSE LET key == identity_key(emps[i])
         IN  IF key \in seen THEN dedup_loop(emps, i + 1, seen, uniq)
             ELSE dedup_loop(emps, i + 1, seen \cup {key}, Append(uniq, emps[i]))

RECURSIVE keep_repeats_loop(_, _, _, _)
keep_repeats_loop(emps, i, seen, uniq) ==
    IF i > Len(emps) THEN uniq
    ELSE LET key == identity_key(emps[i])
         IN  IF key \notin seen
             THEN keep_repeats_loop(emps, i + 1, seen \cup {key}, uniq)
             ELSE keep_repeats_loop(emps, i + 1, seen, Append(uniq, emps[i]))

\* A variant of lines 198-207 with the test of line 202 turned around: a
\* record is kept when its key has been seen.
dedup_keep_repeats(emps) == keep_repeats_loop(emps, 1, {}, <<>>)

\* Lines 198-207.
dedup(emps) == dedup_loop(emps, 1, {}, <<>>)

\* Lines 174-181: employees = [], w2_pages, target_pages.
Classify ==
    /\ pc = "employees_start"
    /\ employees' = <<>>
    /\ page_idx' = 0
    /\ pc' = "employees_loop"
    /\ UNCHANGED <<text, sections, state_values, pages, units, unique, data,
                   called, method, response>>

\* Lines 183-195: one iteration of the loop over target_pages.
PageStep ==
    /\ pc = "employees_loop"
    /\ page_idx < Len(target_pages(pages))
    /\ LET page_text == target_pages(pages)[page_idx + 1]
       IN  /\ units' = units \o page_units(page_text, w2_pages(pages))
           /\ employees' = employees \o page_employees(page_text, w2_pages(pages))
    /\ page_idx' = page_idx + 1
    /\ UNCHANGED <<pc, text, sections, state_values, pages, unique, data,
                   called, method, response>>

\* Lines 197-207: the loop is over; de-dupe and return.
Dedup ==
    /\ pc = "employees_loop"
    /\ page_idx = Len(target_pages(pages))
    /\ unique' = dedup(employees)
    /\ pc' = "employees_done"
    /\ UNCHANGED <<text, sections, state_values, pages, page_idx, units,
                   employees, data, called, method, response>>

(***************************************************************************)
(* The backends (lines 21-44) and the /extract handler (lines 212-243).    *)
(* What a backend does with the uploaded bytes is the document's: the      *)
(* library is not installed ("unavailable"), it raises on the bytes        *)
(* ("malformed"), or it reads these page texts ("pages").                  *)
(***************************************************************************)
Unavailable == [kind |-> "unavailable", pages |-> <<>>]
Malformed == [kind |-> "malformed", pages |-> <<>>]
Reads(pgs) == [kind |-> "pages", pages |-> pgs]

\* Lines 31 and 44: any(part.strip() for part in text_parts).
any_text(text_parts) ==
    \E i \in 1..Len(text_parts) : strip(text_parts[i]) # <<>>

\* What either backend function does with its outcome for the document:
\* the import fails and the function returns None; the library raises on
\* the bytes, outside the try of the import, and nothing handles it; or
\* the function returns text_parts if a page holds text and None if none
\* does.  The returned None is the empty list here: the test "not pages"
\* does not tell them apart, and no backend returns an empty list.
pages_or_none(outcome) ==
    CASE outcome.kind = "unavailable" -> [raised |-> FALSE, value |-> <<>>]
      [] outcome.kind = "malformed" -> [raised |-> TRUE, value |-> <<>>]
      [] OTHER ->
           [raised |-> FALSE,
            value |-> IF any_text(outcome.pages) THEN outcome.pages ELSE <<>>]

\* Lines 21-31.
_extract_pages_pymupdf(d) == pages_or_none(d.pymupdf)

\* Lines 34-44.
_extract_pages_pdfplumber(d) == pages_or_none(d.pdfplumber)

\* A variant of the test of line 218 that always falls back.
needs_fallback_always(pgs) == TRUE

\* Line 218: if not pages.
needs_fallback(pgs) == pgs = <<>>

NoResponse == [kind |-> "none"]

\* An exception leaves the handler.
Raised(backend) == [kind |-> "exception", raised_by |-> backend]

\* Lines 222-227.
NoTextExtracted ==
    [kind |-> "response",
     status_code |-> 422,
     content |-> [error |-> "Unable to extract text. Install pdfplumber or PyMuPDF."]]

RECURSIVE join_pages(_)
\* Line 229: "\n".join(pages).
join_pages(pgs) ==
    IF pgs = <<>> THEN <<>>
    ELSE IF Len(pgs) = 1 THEN pgs[1]
    ELSE pgs[1] \o <<NL>> \o join_pages(Tail(pgs))

\* Lines 233-243.
Result(m, pgs, emps) ==
    [kind |-> "response",
     status_code |-> 200,
     content |->
        [method |-> m,
         fields |->
            [employer_name |-> _extract_employer_info(join_pages(pgs)).employer_name,
             employer_ein |-> _extract_employer_info(join_pages(pgs)).employer_ein,
             employees |-> emps],
         warnings |-> <<"Extraction is best-effort. Please verify all fields before generating the W-2 file.">>]]

\* Lines 214-217.
CallPdfplumber ==
    /\ pc = "extract_start"
    /\ called' = Append(called, "pdfplumber")
    /\ LET r == _extract_pages_pdfplumber(data)
       IN  IF r.raised
           THEN /\ response' = Raised("pdfplumber")
                /\ pc' = "extract_raised"
                /\ UNCHANGED <<pages, method>>
           ELSE /\ pages' = r.value
                /\ method' = Some("pdfplumber")
                /\ pc' = "extract_218"
                /\ UNCHANGED response
    /\ UNCHANGED <<text, sections, state_values, page_idx, units, employees,
                   unique, data>>

\* Lines 218-220.
CallPymupdf ==
    /\ pc = "extract_218"
    /\ needs_fallback(pages)
    /\ called' = Append(called, "pymupdf")
    /\ LET r == _extract_pages_pymupdf(data)
       IN  IF r.raised
           THEN /\ response' = Raised("pymupdf")
                /\ pc' = "extract_raised"
                /\ UNCHANGED <<pages, method>>
           ELSE /\ pages' = r.value
                /\ method' = Some("pymupdf")
                /\ pc' = "extract_221"
                /\ UNCHANGED response
    /\ UNCHANGED <<text, sections, state_values, page_idx, units, employees,
                   unique, data>>

\* Line 218 when pdfplumber returned pages.
KeepPdfplumber ==
    /\ pc = "extract_218"
    /\ ~needs_fallback(pages)
    /\ pc' = "extract_221"
    /\ UNCHANGED <<text, sections, state_values, pages, page_idx, units,
                   employees, unique, data, called, method, response>>

\* Lines 221-227.
Return422 ==
    /\ pc = "extract_221"
    /\ pages = <<>>
    /\ response' = NoTextExtracted
    /\ pc' = "extract_done"
    /\ UNCHANGED <<text, sections, state_values, pages, page_idx, units,
                   employees, unique, data, called, method>>

\* Lines 229-231: the call of _extract_employees_from_pages(pages).
CallEmployees ==
    /\ pc = "extract_221"
    /\ pages # <<>>
    /\ pc' = "employees_start"
    /\ UNCHANGED <<text, sections, state_values, pages, page_idx, units,
                   employees, unique, data, called, method, response>>

\* Lines 233-243.
Respond ==
    /\ pc = "employees_done"
    /\ response' = Result(method[1], pages, unique)
    /\ pc' = "extract_done"
    /\ UNCHANGED <<text, sections, state_values, pages, page_idx, units,
                   employees, unique, data, called, method>>

(***************************************************************************)
(* Idle values of the variables a specification does not use.              *)
(***************************************************************************)
NoDoc == [pdfplumber |-> Unavailable, pymupdf |-> Unavailable]

Idle(used) ==
    /\ "text" \in used \/ text = <<>>
    /\ "sections" \in used \/ sections = <<>>
    /\ "state_values" \in used \/ state_values = <<>>
    /\ "pages" \in used \/ pages = <<>>
    /\ "page_idx" \in used \/ page_idx = 0
    /\ "units" \in used \/ units = <<>>
    /\ "employees" \in used \/ employees = <<>>
    /\ "unique" \in used \/ unique = <<>>
    /\ "data" \in used \/ data = NoDoc
    /\ "called" \in used \/ called = <<>>
    /\ "method" \in used \/ method = None
    /\ "response" \in used \/ response = NoResponse

(***************************************************************************)
(* SpecSplit: _split_employee_sections called on any page text.            *)
(***************************************************************************)
SplitLexemes == {"Employee's name", "EMPLOYEE'S SSN", "JOHN", NL}

InitSplit ==
    /\ pc = "split_call"
    /\ text \in Texts(SplitLexemes, MaxSplitLen)
    /\ Idle({"text"})

SplitCall ==
    /\ pc = "split_call"
    /\ sections' = _split_employee_sections(text)
    /\ pc' = "split_done"
    /\ UNCHANGED <<text, state_values, pages, page_idx, units, employees,
                   unique, data, called, method, response>>

NextSplit == SplitCall

SpecSplit == InitSplit /\ [][NextSplit]_vars

\* The offsets of the employee-start markers of a text.
MarkerOffsets(t) == {i \in 0..(Len(t) - 1) : IsMarker(t[i + 1])}

\* The k-th marker offset of a text, in text-offset order.
KthMarker(t, k) ==
    CHOOSE m \in MarkerOffsets(t) :
        Cardinality({j \in MarkerOffsets(t) : j < m}) = k - 1

\* C1: concatenating all sections returned by _split_employee_sections(text),
\* in order, gives back the original text, for any text, also when text
\* precedes the first employee-start marker.
C1_Reconstruction ==
    pc = "split_done" => Concat(sections) = text

\* C9: with no marker the result is the one section equal to the whole page;
\* otherwise there is exactly one section per marker occurrence, in
\* text-offset order, section k running from marker k's offset to marker
\* k+1's offset (the end of the text for the last), so that no marker is
\* dropped and no two sections overlap.
C9_PartitionByMarker ==
    pc = "split_done" =>
        LET M == MarkerOffsets(text)
            n == Cardinality(M)
        IN  IF M = {} THEN sections = <<text>>
            ELSE /\ Len(sections) = n
                 /\ \A k \in 1..n :
                        sections[k] =
                            Slice(text, KthMarker(text, k),
                                  IF k < n THEN KthMarker(text, k + 1)
                                  ELSE Len(text))

\* A page with text before the first of two markers, split in two sections
\* of which the first holds more than the marker.
C9_Witness ==
    /\ pc = "split_done"
    /\ Cardinality(MarkerOffsets(text)) = 2
    /\ 0 \notin MarkerOffsets(text)
    /\ Len(sections) = 2
    /\ Len(sections[1]) >= 2

(***************************************************************************)
(* SpecTax: _extract_state_wages_and_tax called on any text.               *)
(***************************************************************************)
TaxLexemes == {Cap16, Cap17, NL, SP, "100.00", "7.50"}

InitTax ==
    /\ pc = "tax_call"
    /\ text \in Texts(TaxLexemes, MaxTaxLen)
    /\ Idle({"text"})

TaxCall ==
    /\ pc = "tax_call"
    /\ state_values' = _extract_state_wages_and_tax(text)
    /\ pc' = "tax_done"
    /\ UNCHANGED <<text, sections, pages, page_idx, units, employees,
                   unique, data, called, method, response>>

NextTax == TaxCall

SpecTax == InitTax /\ [][NextTax]_vars

\* The newlines after which the line following the two captions may start:
\* a box-16 caption, later a box-17 caption, later this newline, and a
\* character other than a newline right after it.
CaptionNewlines(t) ==
    {k \in 1..(Len(t) - 1) :
        /\ t[k] = NL
        /\ t[k + 1] # NL
        /\ \E i \in 1..Len(t), j \in 1..Len(t) :
              i < j /\ j < k /\ t[i] = Cap16 /\ t[j] = Cap17}

Least(S) == CHOOSE m \in S : \A o \in S : m <= o

\* The positions of the decimal-with-cents tokens on the line that starts
\* after newline k.
TokensOnLineAfter(t, k) ==
    {p \in (k + 1)..Len(t) :
        /\ IsAmount(t[p])
        /\ \A q \in (k + 1)..p : t[q] # NL}

\* C8: state_wages and state_withheld are both null or both non-null; they
\* are null when the captions are not found or the line that follows them
\* holds fewer than two decimal-with-cents tokens, and otherwise they are
\* the first and the second token of that line, left to right.
C8_StateValuesBothOrNone ==
    pc = "tax_done" =>
        /\ (state_values.state_wages = None) <=> (state_values.state_withheld = None)
        /\ LET K == CaptionNewlines(text)
           IN  IF K = {}
               THEN state_values = [state_wages |-> None, state_withheld |-> None]
               ELSE LET A == TokensOnLineAfter(text, Least(K))
                    IN  IF Cardinality(A) < 2
                        THEN state_values =
                               [state_wages |-> None, state_withheld |-> None]
                        ELSE /\ state_values.state_wages = Some(text[Least(A)])
                             /\ state_values.state_withheld =
                                   Some(text[Least(A \ {Least(A)})])

\* The captions followed by a line with two different tokens.
C8_Witness ==
    /\ pc = "tax_done"
    /\ state_values.state_wages = Some("100.00")
    /\ state_values.state_withheld = Some("7.50")

(***************************************************************************)
(* SpecPages: _extract_employees_from_pages called on any list of pages.   *)
(***************************************************************************)
PageLexemes == {"W-2", "Employee's name", SP, "JOHN", "123456789"}

InitPages ==
    /\ pc = "employees_start"
    /\ pages \in Docs(PageLexemes, MaxPages, MaxDocLexemes)
    /\ Idle({"pages"})

NextPages == Classify \/ PageStep \/ Dedup

SpecPages == InitPages /\ [][NextPages]_vars

HasNonNullField(emp) == \E f \in EmployeeFields : emp[f] # None

\* C5: every employee record _extract_employees_from_pages holds or returns
\* has at least one non-null field among ssn, first, middle, last, wages,
\* state_wages, state_withheld and mapfml: an all-empty record is dropped
\* before the de-dupe loop and never reaches the output.
C5_NoAllNullRecord ==
    /\ \A i \in 1..Len(employees) : HasNonNullField(employees[i])
    /\ \A i \in 1..Len(unique) : HasNonNullField(unique[i])

\* The function has returned a record for a document that also holds a
\* page of whitespace only.
C5_Witness ==
    /\ pc = "employees_done"
    /\ Len(unique) >= 1
    /\ \E i \in 1..Len(pages) : pages[i] # <<>> /\ strip(pages[i]) = <<>>

\* A page qualifies when it holds the form identifier and the caption.
Qualifies(page_text) ==
    /\ \E i \in 1..Len(page_text) : page_text[i] = "W-2"
    /\ \E i \in 1..Len(page_text) : ContainsEmployee(page_text[i])

RECURSIVE SectionsOfNonBlank(_)
\* The sections of every non-blank page, page after page.
SectionsOfNonBlank(pgs) ==
    IF pgs = <<>> THEN <<>>
    ELSE (IF strip(Head(pgs)) = <<>> THEN <<>>
          ELSE _split_employee_sections(Head(pgs)))
         \o SectionsOfNonBlank(Tail(pgs))

\* C10: if a page holds both "W-2" and "Employee", only the qualifying
\* pages are processed, each extracted as one whole-page unit (at most one
\* record per qualifying page) and the other pages give no record; if no
\* page qualifies, every non-blank page goes through
\* _split_employee_sections and each section is extracted on its own.
C10_TwoTierClassification ==
    pc = "employees_done" =>
        LET qualifying == SelectSeq(pages, Qualifies)
            records == [i \in 1..Len(units) |-> _extract_employee_from_page(units[i])]
        IN  /\ IF qualifying # <<>>
               THEN units = qualifying /\ Len(employees) <= Len(qualifying)
               ELSE units = SectionsOfNonBlank(pages)
            /\ employees = SelectSeq(records, HasNonNullField)

\* A document with a qualifying page and a page of text that does not
\* qualify: one unit, the qualifying page, and its record.
C10_Witness ==
    /\ pc = "employees_done"
    /\ \E i \in 1..Len(pages) : Qualifies(pages[i])
    /\ \E i \in 1..Len(pages) : ~Qualifies(pages[i]) /\ strip(pages[i]) # <<>>
    /\ Len(units) = 1
    /\ Len(employees) = 1

(***************************************************************************)
(* SpecDedup: the de-dupe loop of lines 197-207 entered with any list of   *)
(* employee records that passed the test of lines 188 and 194.             *)
(***************************************************************************)
Emp(ssn, first, last, wages) ==
    [ssn |-> ssn, first |-> first, middle |-> None, last |-> last,
     wages |-> wages, state_wages |-> None, state_withheld |-> None,
     mapfml |-> None]

DedupRecords ==
    {Emp(Some("123-45-6789"), Some("JOHN"), Some("DOE"), Some("100.00")),
     Emp(Some("123-45-6789"), Some("JOHN"), Some("DOE"), None),
     Emp(Some("123456789"), Some("JOHN"), Some("DOE"), Some("100.00")),
     Emp(None, Some("JOHN"), Some("DOE"), Some("100.00")),
     Emp(None, Some("JOHN"), Some("DOE"), Some("7.50")),
     Emp(None, Some("123"), Some("45-6789"), None),
     Emp(None, None, None, Some("100.00"))}

InitDedup ==
    /\ pc = "employees_loop"
    /\ employees \in UNION {[1..n -> DedupRecords] : n \in 0..MaxEmployees}
    /\ Idle({"employees"})

NextDedup == Dedup

SpecDedup == InitDedup /\ [][NextDedup]_vars

\* The identity key of a record: the SSN if present, else "first-last".
ClaimKey(emp) ==
    IF emp.ssn # None THEN emp.ssn[1]
    ELSE py_str(emp.first) \o "-" \o py_str(emp.last)

\* The positions of the records that are the first with their key.
FirstSeen(emps) ==
    {i \in 1..Len(emps) :
        \A j \in 1..(i - 1) : ClaimKey(emps[j]) # ClaimKey(emps[i])}

\* The k-th smallest element of a set of numbers.
KthOf(S, k) == CHOOSE m \in S : Cardinality({j \in S : j < m}) = k - 1

\* C6: the de-dupe loop keeps, for each identity key, exactly the first
\* record met with that key, unchanged, the kept records in the order they
\* were met; no two records of the output share an identity key.
C6_FirstPerKeyInOrder ==
    pc = "employees_done" =>
        /\ Len(unique) = Cardinality(FirstSeen(employees))
        /\ \A k \in 1..Len(unique) :
              unique[k] = employees[KthOf(FirstSeen(employees), k)]
        /\ \A a \in 1..Len(unique), b \in 1..Len(unique) :
              a # b => ClaimKey(unique[a]) # ClaimKey(unique[b])

\* Two records are kept and a later record is dropped that shares its key
\* with a kept one and differs from it in another field.
C6_Witness ==
    /\ pc = "employees_done"
    /\ Len(unique) >= 2
    /\ \E i \in 1..Len(employees), j \in 1..Len(employees) :
          /\ i < j
          /\ ClaimKey(employees[i]) = ClaimKey(employees[j])
          /\ employees[i] # employees[j]

\* C7: the de-dupe loop is idempotent: run on its own output it returns
\* that output.
C7_DedupIdempotent ==
    pc = "employees_done" => dedup(unique) = unique

\* The loop has dropped a record and kept others.
C7_Witness ==
    /\ pc = "employees_done"
    /\ unique # <<>>
    /\ Len(unique) < Len(employees)

(***************************************************************************)
(* SpecExtract: the /extract handler on any uploaded document.             *)
(***************************************************************************)
BackendLexemes == {SP, "JOHN"}

Outcomes ==
    {Unavailable, Malformed} \cup
    {Reads(pgs) : pgs \in Docs(BackendLexemes, MaxBackendPages, MaxBackendLexemes)}

InitExtract ==
    /\ pc = "extract_start"
    /\ data \in [pdfplumber : Outcomes, pymupdf : Outcomes]
    /\ Idle({"data"})

NextExtract ==
    \/ CallPdfplumber
    \/ CallPymupdf
    \/ KeepPdfplumber
    \/ Return422
    \/ CallEmployees
    \/ Classify
    \/ PageStep
    \/ Dedup
    \/ Respond

SpecExtract == InitExtract /\ [][NextExtract]_vars

\* Whether a backend reads at least one page with non-whitespace content.
YieldsText(outcome) ==
    /\ outcome.kind = "pages"
    /\ \E i \in 1..Len(outcome.pages) : strip(outcome.pages[i]) # <<>>

HandlerOver == pc \in {"extract_done", "extract_raised"}

\* C2: for every document of which neither backend returns a page with
\* non-whitespace content, the handler answers the 422 response that holds
\* only the error message, and runs no employer or employee extraction.
C2_NoTextGives422 ==
    (HandlerOver /\ ~YieldsText(data.pdfplumber) /\ ~YieldsText(data.pymupdf)) =>
        /\ response = NoTextExtracted
        /\ DOMAIN response.content = {"error"}
        /\ units = <<>>

\* C3: a backend that raises on the document's bytes is treated as an
\* unavailable backend: the next backend is tried, the answer is the
\* NoTextExtracted response if no backend yields text, and no exception
\* leaves the handler.
C3_RaiseTreatedAsUnavailable ==
    HandlerOver =>
        /\ response.kind = "response"
        /\ data.pdfplumber.kind = "malformed" => "pymupdf" \in Range(called)
        /\ (~YieldsText(data.pdfplumber) /\ ~YieldsText(data.pymupdf)) =>
              response = NoTextExtracted

\* C4: the backends are tried in the order pdfplumber, PyMuPDF; PyMuPDF is
\* called only if pdfplumber was unavailable or returned only whitespace;
\* the pages extraction runs on are those of the first backend that yields
\* text, and a successful response names that backend as its method.
C4_FirstBackendWithText ==
    LET first_with_text ==
            IF YieldsText(data.pdfplumber) THEN "pdfplumber" ELSE "pymupdf"
    IN  /\ called \in {<<>>, <<"pdfplumber">>, <<"pdfplumber", "pymupdf">>}
        /\ "pymupdf" \in Range(called) =>
              /\ data.pdfplumber.kind \in {"unavailable", "pages"}
              /\ ~YieldsText(data.pdfplumber)
        /\ pc \in {"employees_start", "employees_loop", "employees_done"} =>
              /\ YieldsText(data[first_with_text])
              /\ pages = data[first_with_text].pages
              /\ method = Some(first_with_text)
        /\ (response.kind = "response" /\ response.status_code = 200) =>
              /\ YieldsText(data[first_with_text])
              /\ pages = data[first_with_text].pages
              /\ response.content.method = first_with_text
              /\ called[Len(called)] = first_with_text

\* pdfplumber read pages of whitespace only, PyMuPDF read text, and the
\* response names pymupdf.
C4_Witness ==
    /\ pc = "extract_done"
    /\ data.pdfplumber.kind = "pages"
    /\ data.pdfplumber.pages # <<>>
    /\ response.kind = "response"
    /\ response.status_code = 200
    /\ response.content.method = "pymupdf"
    /\ response.content.fields.employees # <<>>

====
